---- MODULE Spec2Model ----
(***************************************************************************)
(* A model of main.py, the IPO report job: load_config, the two provider  *)
(* adapters, get_ipo_data (concatenate, parse dates, drop, deduplicate),   *)
(* the weekday-dependent report windows, format_ipo_period and the send    *)
(* loop.                                                                   *)
(*                                                                         *)
(* A DataFrame is a sequence of rows; a row is a record with the fields    *)
(* symbol, Company_Name and IPO_Date.  Texts are strings, so that lengths, *)
(* slices and concatenations are those of the program.  A date is the day  *)
(* of the year 2024 (1 = 2024-01-01, a Monday); the providers' date texts  *)
(* are ISO dates "2024-MM-DD", and any other text does not parse.          *)
(***************************************************************************)
EXTENDS Integers, Sequences, FiniteSets, TLC

VARIABLES pc, config, av_ipos, fh_ipos, ipo_data, today, calls, sections,
          message, sent

vars == <<pc, config, av_ipos, fh_ipos, ipo_data, today, calls, sections,
          message, sent>>

\* The largest number of rows the two providers return together.
MaxRows == 2

-----------------------------------------------------------------------------
(* Calendar arithmetic of datetime / pandas.Timestamp, for the year 2024.  *)

DaysInMonth(m) == <<31, 29, 31, 30, 31, 30, 31, 31, 30, 31, 30, 31>>[m]

RECURSIVE DaysBefore(_)
DaysBefore(m) == IF m = 1 THEN 0 ELSE DaysBefore(m - 1) + DaysInMonth(m - 1)

Ordinal(m, d) == DaysBefore(m) + d

MonthOf(date) ==
    CHOOSE m \in 1..12 : DaysBefore(m) < date /\ date <= DaysBefore(m) + DaysInMonth(m)

DayOf(date) == date - DaysBefore(MonthOf(date))

\* date.weekday(): 0 = Monday .. 6 = Sunday.
Weekday(date) == (date - 1) % 7

TwoDigits(n) == IF n < 10 THEN "0" \o ToString(n) ELSE ToString(n)

DayName(date) ==
    <<"Monday", "Tuesday", "Wednesday", "Thursday", "Friday", "Saturday",
      "Sunday">>[Weekday(date) + 1]

MonthAbbr(date) ==
    <<"Jan", "Feb", "Mar", "Apr", "May", "Jun", "Jul", "Aug", "Sep", "Oct",
      "Nov", "Dec">>[MonthOf(date)]

\* strftime('%b %d')
StrfMonthDay(date) == MonthAbbr(date) \o " " \o TwoDigits(DayOf(date))

\* strftime('%A, %b %d')
StrfDayMonthDay(date) == DayName(date) \o ", " \o StrfMonthDay(date)

-----------------------------------------------------------------------------
(* Values of pandas.                                                       *)

\* A missing value, as an f-string renders it.
NaN == "nan"

\* The missing timestamp pd.to_datetime(errors='coerce') yields.
NaT == -1

Digits == <<"0", "1", "2", "3", "4", "5", "6", "7", "8", "9">>

\* The value of a digit, or -1.
DigitOf(c) ==
    IF \E v \in 1..10 : Digits[v] = c
    THEN (CHOOSE v \in 1..10 : Digits[v] = c) - 1
    ELSE -1

\* The number two digits spell, or -1.
ParseTwo(s) ==
    LET tens == DigitOf(SubSeq(s, 1, 1))
        ones == DigitOf(SubSeq(s, 2, 2))
    IN  IF tens >= 0 /\ ones >= 0 THEN 10 * tens + ones ELSE -1

\* pd.to_datetime(text, errors='coerce') of one cell.
ToDatetime(s) ==
    IF Len(s) = 10 /\ SubSeq(s, 1, 5) = "2024-" /\ SubSeq(s, 8, 8) = "-"
    THEN LET m == ParseTwo(SubSeq(s, 6, 7))
             d == ParseTwo(SubSeq(s, 9, 10))
         IN  IF m \in 1..12 /\ d >= 1 /\ d <= DaysInMonth(m)
             THEN Ordinal(m, d)
             ELSE NaT
    ELSE NaT

-----------------------------------------------------------------------------
(* load_config                                                             *)

RequiredSections == {"telegram", "alpha_vantage", "finnhub"}

\* The index of the first comma of s, or 0.
FirstComma(s) ==
    IF \E i \in 1..Len(s) : SubSeq(s, i, i) = ","
    THEN CHOOSE i \in 1..Len(s) :
            /\ SubSeq(s, i, i) = ","
            /\ \A j \in 1..(i - 1) : SubSeq(s, j, j) # ","
    ELSE 0

\* str.split(',')
RECURSIVE Split(_)
Split(s) ==
    LET k == FirstComma(s)
    IN  IF k = 0 THEN <<s>>
        ELSE <<SubSeq(s, 1, k - 1)>> \o Split(SubSeq(s, k + 1, Len(s)))

\* str.strip(), for blanks
RECURSIVE Strip(_)
Strip(s) ==
    IF Len(s) > 0 /\ SubSeq(s, 1, 1) = " " THEN Strip(SubSeq(s, 2, Len(s)))
    ELSE IF Len(s) > 0 /\ SubSeq(s, Len(s), Len(s)) = " "
         THEN Strip(SubSeq(s, 1, Len(s) - 1))
         ELSE s

ChatIds(chat_ids_str) ==
    LET items == Split(chat_ids_str)
    IN  [i \in 1..Len(items) |-> Strip(items[i])]

\* The config.ini files of the model: the sections present and the text of
\* chat_ids in [telegram] ("" when the key is absent or empty).
ConfigFiles ==
    [sections : {RequiredSections, {"telegram", "alpha_vantage"}},
     chat_ids : {"", "111", "111, 222", "111,222,333"}]

ConfigLoads(file) ==
    /\ RequiredSections \subseteq file.sections
    /\ file.chat_ids # ""

-----------------------------------------------------------------------------
(* The providers' responses and the adapters.                              *)

SeqsUpTo(S, n) == UNION {[1..k -> S] : k \in 0..n}

ValidDateTexts == {"2024-06-09", "2024-06-10", "2024-06-16"}
DateTexts == ValidDateTexts \cup {"2024-06-31"}

\* A line of Provider A's CSV: the columns symbol, name, ipoDate.
CsvLines ==
    [symbol : {"ACME", "BETA", "N/A"}, name : {"Acme Inc"}, ipoDate : DateTexts]

\* An entry of Provider B's ipoCalendar, with or without the key symbol.
CalendarEntries ==
    [symbol : {"ACME", "BETA"}, name : {"ACME Corp"}, date : DateTexts]
        \cup [name : {"ACME Corp"}, date : DateTexts]

\* pd.read_csv maps an empty cell and the text N/A to a missing value.
CsvCell(text) == IF text \in {"", "N/A", "NA", "NaN", "nan"} THEN NaN ELSE text

\* get_alpha_vantage_ipos, given the CSV lines of a successful response.
AlphaVantageFrame(lines) ==
    [i \in 1..Len(lines) |->
        [symbol |-> CsvCell(lines[i].symbol),
         Company_Name |-> CsvCell(lines[i].name),
         IPO_Date |-> CsvCell(lines[i].ipoDate)]]

\* get_finnhub_ipos, given the ipoCalendar entries of a successful response.
FinnhubFrame(data) ==
    IF data = <<>> THEN <<>>
    ELSE LET hasColumn == \E i \in 1..Len(data) : "symbol" \in DOMAIN data[i]
         IN  [i \in 1..Len(data) |->
                [symbol |-> IF ~hasColumn THEN "N/A"
                            ELSE IF "symbol" \in DOMAIN data[i]
                                 THEN data[i].symbol ELSE NaN,
                 Company_Name |-> data[i].name,
                 IPO_Date |-> data[i].date]]

-----------------------------------------------------------------------------
(* get_ipo_data                                                            *)

\* Provider B's rows first.
ConcatFinnhubFirst(av, fh) == IF av = <<>> /\ fh = <<>> THEN <<>> ELSE fh \o av

Concat(av, fh) == IF av = <<>> /\ fh = <<>> THEN <<>> ELSE av \o fh

\* combined_df['IPO Date'] = pd.to_datetime(..., errors='coerce')
ParseDates(df) ==
    [i \in 1..Len(df) |-> [df[i] EXCEPT !.IPO_Date = ToDatetime(@)]]

\* Rows without a date kept.
KeepNa(df) == df

\* dropna(subset=['IPO Date'])
DropNa(df) == SelectSeq(df, LAMBDA r : r.IPO_Date # NaT)

\* No deduplication.
KeepDuplicates(df) == df

\* drop_duplicates(subset=['symbol'], keep='first')
RECURSIVE DropDuplicates(_)
DropDuplicates(df) ==
    IF df = <<>> THEN <<>>
    ELSE LET n == Len(df)
             front == DropDuplicates(SubSeq(df, 1, n - 1))
         IN  IF \E j \in 1..(n - 1) : df[j].symbol = df[n].symbol
             THEN front
             ELSE Append(front, df[n])

Combine(av, fh) ==
    LET combined_df == Concat(av, fh)
    IN  IF combined_df # <<>>
        THEN DropDuplicates(DropNa(ParseDates(combined_df)))
        ELSE <<>>

-----------------------------------------------------------------------------
(* format_ipo_period                                                       *)

\* The end of the window excluded.
MaskOpenEnd(df, start_date, end_date) ==
    SelectSeq(df, LAMBDA r : r.IPO_Date >= start_date /\ r.IPO_Date < end_date)

\* df.loc[(df['IPO Date'] >= start_date) & (df['IPO Date'] <= end_date)]
Mask(df, start_date, end_date) ==
    SelectSeq(df, LAMBDA r : r.IPO_Date >= start_date /\ r.IPO_Date <= end_date)

Rearrangements(df) ==
    LET n == Len(df)
        perms == {p \in [1..n -> 1..n] : \A i, j \in 1..n : i # j => p[i] # p[j]}
    IN  {[i \in 1..n |-> df[p[i]]] : p \in perms}

\* period_df.sort_values(by='IPO Date'): the default kind, quicksort, is not a
\* stable sort, so rows of one date come out in any order.
SortValues(df) ==
    {s \in Rearrangements(df) :
        \A i \in 1..(Len(s) - 1) : s[i].IPO_Date <= s[i + 1].IPO_Date}

RECURSIVE RenderRows(_)
RenderRows(group) ==
    IF group = <<>> THEN ""
    ELSE "- " \o Head(group).Company_Name \o " (" \o Head(group).symbol \o ")\n"
            \o RenderRows(Tail(group))

\* The loop over period_df.groupby(period_df['IPO Date'].dt.date): the groups
\* in ascending date order, each with its rows in the order of period_df.
RECURSIVE RenderGroups(_)
RenderGroups(period_df) ==
    IF period_df = <<>> THEN ""
    ELSE LET date == CHOOSE d \in {period_df[i].IPO_Date : i \in 1..Len(period_df)} :
                        \A i \in 1..Len(period_df) : d <= period_df[i].IPO_Date
             group == SelectSeq(period_df, LAMBDA r : r.IPO_Date = date)
             rest == SelectSeq(period_df, LAMBDA r : r.IPO_Date # date)
         IN  "_" \o StrfDayMonthDay(date) \o "_\n" \o RenderRows(group) \o "\n"
                \o RenderGroups(rest)

\* format_ipo_period, given the outcome sorted of its sort_values.
FormatIpoPeriod(df, start_date, end_date, title, empty_message, sorted) ==
    IF df = <<>> \/ Mask(df, start_date, end_date) = <<>>
    THEN "**" \o title \o "**\n_" \o empty_message \o "_\n\n"
    ELSE "**" \o title \o "**\n" \o RenderGroups(sorted)

-----------------------------------------------------------------------------
(* The main block: the report of the day.                                  *)

\* The days datetime.now() falls on: Monday 2024-06-03 .. Sunday 2024-06-09.
Todays == {Ordinal(6, d) : d \in 3..9}

NoIposMessage(today_date) ==
    "No IPOs scheduled for today, " \o DayName(today_date) \o ", "
        \o StrfMonthDay(today_date) \o "."

Call(start_date, end_date, title, empty_message) ==
    [start_date |-> start_date, end_date |-> end_date, title |-> title,
     empty_message |-> empty_message]

TodayCall(today_date) ==
    Call(today_date, today_date, "Today's IPOs", "None for today.")

\* The remainder of the week taken from today on.
RestOfWeekCallFromToday(start_date, end_date) ==
    Call(start_date - 1, end_date, "Remainder of This Week",
         "None for the rest of this week.")

RestOfWeekCall(start_date, end_date) ==
    Call(start_date, end_date, "Remainder of This Week",
         "None for the rest of this week.")

\* next_sun one day late.
NextWeekCallEightDays(next_mon) ==
    Call(next_mon, next_mon + 7, "Next Week's IPOs",
         "None scheduled for next week yet.")

NextWeekCall(next_mon) ==
    Call(next_mon, next_mon + 6, "Next Week's IPOs",
         "None scheduled for next week yet.")

\* What message is set to before the first call of format_ipo_period.
ReportHeader(today_date) ==
    LET day_of_week == Weekday(today_date)
    IN  IF day_of_week >= 0 /\ day_of_week <= 2
        THEN "**IPO Report for " \o StrfDayMonthDay(today_date) \o "**\n\n"
        ELSE IF day_of_week = 3
        THEN "**IPO Outlook for Thursday, " \o StrfMonthDay(today_date) \o "**\n\n"
        ELSE IF day_of_week = 4
        THEN "**IPO Report for Friday, " \o StrfMonthDay(today_date) \o "**\n\n"
        ELSE ""

\* The calls of format_ipo_period the day-of-the-week logic makes, in order.
PlannedCalls(today_date) ==
    LET day_of_week == Weekday(today_date)
    IN  IF day_of_week >= 0 /\ day_of_week <= 2
        THEN LET start_of_rest_of_week == today_date + 1
                 end_of_week == today_date + (6 - day_of_week)
             IN  <<TodayCall(today_date)>> \o
                 (IF start_of_rest_of_week <= end_of_week
                  THEN <<RestOfWeekCall(start_of_rest_of_week, end_of_week)>>
                  ELSE <<>>)
        ELSE IF day_of_week = 3
        THEN <<TodayCall(today_date),
               RestOfWeekCall(today_date + 1, today_date + 3),
               NextWeekCall(today_date + 4)>>
        ELSE IF day_of_week = 4
        THEN <<TodayCall(today_date), NextWeekCall(today_date + 3)>>
        ELSE LET end_of_period == today_date + 7
             IN  <<Call(today_date, end_of_period,
                        "Upcoming IPOs for the Next 7 Days ("
                            \o StrfMonthDay(today_date) \o " - "
                            \o StrfMonthDay(end_of_period) \o ")",
                        "No IPOs found for the upcoming 7 days.")>>

-----------------------------------------------------------------------------
(* The send loop.                                                          *)

TelegramLimit == 4096
TruncateAt == 4090

\* message[:n]
Prefix(text, n) == IF Len(text) <= n THEN text ELSE SubSeq(text, 1, n)

\* Truncation from the limit itself on.
OutgoingAtLimit(text) ==
    IF Len(text) >= TelegramLimit THEN Prefix(text, TruncateAt) \o "\n..." ELSE text

\* The text handed to bot.send_message.
Outgoing(text) ==
    IF Len(text) > TelegramLimit THEN Prefix(text, TruncateAt) \o "\n..." ELSE text

-----------------------------------------------------------------------------
(* The run.  pc is the place of the main block: load_config, the two       *)
(* fetches and the combination of get_ipo_data, the reading of the clock,  *)
(* the branch on the data, the calls of format_ipo_period and the sends.   *)
(* calls holds the calls of format_ipo_period still to make; sections      *)
(* records, for each call made, its window and the rows it listed; sent    *)
(* records each bot.send_message with its text and whether it raised.      *)

Init ==
    /\ pc = "load_config"
    /\ config = [chat_ids |-> <<>>]
    /\ av_ipos = <<>>
    /\ fh_ipos = <<>>
    /\ ipo_data = <<>>
    /\ today = 0
    /\ calls = <<>>
    /\ sections = <<>>
    /\ message = ""
    /\ sent = <<>>

\* config = load_config(): a missing section or an empty chat_ids raises, and
\* the run ends before any fetch.
LoadConfig ==
    /\ pc = "load_config"
    /\ \E file \in ConfigFiles :
        \/ /\ ConfigLoads(file)
           /\ config' = [chat_ids |-> ChatIds(file.chat_ids)]
           /\ pc' = "fetch_av"
        \/ /\ ~ConfigLoads(file)
           /\ pc' = "fatal"
           /\ UNCHANGED config
    /\ UNCHANGED <<av_ipos, fh_ipos, ipo_data, today, calls, sections, message, sent>>

\* av_ipos = get_alpha_vantage_ipos(...): any exception yields an empty frame.
FetchAlphaVantage ==
    /\ pc = "fetch_av"
    /\ \/ av_ipos' = <<>>
       \/ \E lines \in SeqsUpTo(CsvLines, MaxRows) :
            av_ipos' = AlphaVantageFrame(lines)
    /\ pc' = "fetch_fh"
    /\ UNCHANGED <<config, fh_ipos, ipo_data, today, calls, sections, message, sent>>

\* fh_ipos = get_finnhub_ipos(...): any exception yields an empty frame.
FetchFinnhub ==
    /\ pc = "fetch_fh"
    /\ \/ fh_ipos' = <<>>
       \/ \E data \in SeqsUpTo(CalendarEntries, MaxRows - Len(av_ipos)) :
            fh_ipos' = FinnhubFrame(data)
    /\ pc' = "combine"
    /\ UNCHANGED <<config, av_ipos, ipo_data, today, calls, sections, message, sent>>

\* The rest of get_ipo_data, up to its return statement: ipo_data is the
\* frame it is about to return.
CombineData ==
    /\ pc = "combine"
    /\ ipo_data' = Combine(av_ipos, fh_ipos)
    /\ pc' = "clock"
    /\ UNCHANGED <<config, av_ipos, fh_ipos, today, calls, sections, message, sent>>

\* get_ipo_data returns, and its locals av_ipos and fh_ipos with it; then
\* today = datetime.now() and message = "".
ReadClock ==
    /\ pc = "clock"
    /\ av_ipos' = <<>>
    /\ fh_ipos' = <<>>
    /\ today' \in Todays
    /\ message' = ""
    /\ pc' = "report"
    /\ UNCHANGED <<config, ipo_data, calls, sections, sent>>

\* The day-of-the-week logic without the check for an empty collection.
BeginReportUnchecked ==
    /\ pc = "report"
    /\ message' = ReportHeader(today)
    /\ calls' = PlannedCalls(today)
    /\ pc' = "format"
    /\ UNCHANGED <<config, av_ipos, fh_ipos, ipo_data, today, sections, sent>>

\* if ipo_data.empty: the 'no IPOs' message; else the day-of-the-week logic,
\* up to its first call of format_ipo_period.
BeginReport ==
    /\ pc = "report"
    /\ \/ /\ ipo_data = <<>>
          /\ message' = NoIposMessage(today)
          /\ calls' = <<>>
          /\ pc' = "send"
       \/ /\ ipo_data # <<>>
          /\ message' = ReportHeader(today)
          /\ calls' = PlannedCalls(today)
          /\ pc' = "format"
    /\ UNCHANGED <<config, av_ipos, fh_ipos, ipo_data, today, sections, sent>>

\* message += format_ipo_period(ipo_data, start, end, title, empty_message)
FormatSection ==
    /\ pc = "format"
    /\ LET call == Head(calls)
       IN  \E sorted \in SortValues(Mask(ipo_data, call.start_date, call.end_date)) :
            /\ message' = message \o
                    FormatIpoPeriod(ipo_data, call.start_date, call.end_date,
                                    call.title, call.empty_message, sorted)
            /\ sections' = Append(sections,
                    [start_date |-> call.start_date, end_date |-> call.end_date,
                     listed |-> sorted])
    /\ calls' = Tail(calls)
    /\ pc' = IF Tail(calls) = <<>> THEN "send" ELSE "format"
    /\ UNCHANGED <<config, av_ipos, fh_ipos, ipo_data, today, sent>>

\* A send that raises ends the loop.
SendMessageStopOnError ==
    /\ pc = "send"
    /\ Len(sent) < Len(config.chat_ids)
    /\ \E raised \in BOOLEAN :
        /\ sent' = Append(sent, [chat_id |-> config.chat_ids[Len(sent) + 1],
                                 text |-> Outgoing(message),
                                 raised |-> raised])
        /\ pc' = IF raised THEN "done" ELSE pc
    /\ UNCHANGED <<config, av_ipos, fh_ipos, ipo_data, today, calls, sections, message>>

\* One turn of the loop over config['chat_ids']: the send raises or not.
SendMessage ==
    /\ pc = "send"
    /\ Len(sent) < Len(config.chat_ids)
    /\ \E raised \in BOOLEAN :
        sent' = Append(sent, [chat_id |-> config.chat_ids[Len(sent) + 1],
                              text |-> Outgoing(message),
                              raised |-> raised])
    /\ UNCHANGED <<pc, config, av_ipos, fh_ipos, ipo_data, today, calls, sections, message>>

\* The loop is over: "IPO check complete. Exiting."
Finish ==
    /\ pc = "send"
    /\ Len(sent) = Len(config.chat_ids)
    /\ pc' = "done"
    /\ UNCHANGED <<config, av_ipos, fh_ipos, ipo_data, today, calls, sections, message, sent>>

Next ==
    \/ LoadConfig
    \/ FetchAlphaVantage
    \/ FetchFinnhub
    \/ CombineData
    \/ ReadClock
    \/ BeginReport
    \/ FormatSection
    \/ SendMessage
    \/ Finish

Spec == Init /\ [][Next]_vars

-----------------------------------------------------------------------------
(* Delivery of a long report: the run from the point where the report of a *)
(* collection of one row, listed under today, is complete and the loop     *)
(* over the chats begins.  The company name is as long as makes the report *)
(* a given number of characters.                                           *)

\* How far on either side of the limit the lengths of the reports lie.
Spread == 3

\* The length of one more report, well over the limit.
LongReport == 5000

RECURSIVE Rep(_, _)
Rep(s, n) ==
    IF n = 0 THEN ""
    ELSE IF n % 2 = 1 THEN s \o Rep(s, n - 1)
         ELSE LET half == Rep(s, n \div 2) IN half \o half

OneRow(name, date) ==
    <<[symbol |-> "ACME", Company_Name |-> name, IPO_Date |-> date]>>

RECURSIVE FormatCalls(_, _)
FormatCalls(df, cs) ==
    IF cs = <<>> THEN ""
    ELSE LET call == Head(cs)
             sorted == CHOOSE s \in SortValues(Mask(df, call.start_date, call.end_date)) : TRUE
         IN  FormatIpoPeriod(df, call.start_date, call.end_date, call.title,
                             call.empty_message, sorted)
                \o FormatCalls(df, Tail(cs))

\* The report of a collection in which no two rows share a date.
ReportText(df, today_date) ==
    ReportHeader(today_date) \o FormatCalls(df, PlannedCalls(today_date))

ReportLengths ==
    ((TelegramLimit - Spread)..(TelegramLimit + Spread)) \cup {LongReport}

InitDeliver ==
    /\ pc = "send"
    /\ \E file \in ConfigFiles :
        /\ ConfigLoads(file)
        /\ config = [chat_ids |-> ChatIds(file.chat_ids)]
    /\ av_ipos = <<>>
    /\ fh_ipos = <<>>
    /\ today \in Todays
    /\ \E n \in ReportLengths :
        LET name == Rep("x", n - Len(ReportText(OneRow("", today), today)))
        IN  /\ ipo_data = OneRow(name, today)
            /\ message = ReportText(ipo_data, today)
    /\ calls = <<>>
    /\ sections =
        [i \in 1..Len(PlannedCalls(today)) |->
            [start_date |-> PlannedCalls(today)[i].start_date,
             end_date |-> PlannedCalls(today)[i].end_date,
             listed |-> Mask(ipo_data, PlannedCalls(today)[i].start_date,
                             PlannedCalls(today)[i].end_date)]]
    /\ sent = <<>>

NextDeliver == SendMessage \/ Finish

SpecDeliver == InitDeliver /\ [][NextDeliver]_vars

-----------------------------------------------------------------------------
(* Properties.                                                             *)

\* get_ipo_data is at its return statement: the frames of the two providers
\* and the frame it returns are at hand.
Combined == pc = "clock"

\* The report is complete.
Reported == pc \in {"send", "done"}

\* The rows of the two providers, Provider A's first.
Inputs == av_ipos \o fh_ipos

Parseable(row) == ToDatetime(row.IPO_Date) # NaT

SectionWindows ==
    [i \in 1..Len(sections) |-> <<sections[i].start_date, sections[i].end_date>>]

Lists(section, row) == \E k \in 1..Len(section.listed) : section.listed[k] = row

\* C1: with a non-empty merged collection, the report of a day of weekday w
\* is built from these windows, in this order: w in 0..2: [today, today],
\* [today+1, today+(6-w)]; w = 3: [today, today], [today+1, today+3],
\* [today+4, today+10]; w = 4: [today, today], [today+3, today+9];
\* w in 5..6: [today, today+7].
C1_WindowsOfTheDay ==
    (Reported /\ ipo_data # <<>>) =>
        LET w == Weekday(today)
        IN  SectionWindows =
                CASE w \in 0..2 -> <<<<today, today>>, <<today + 1, today + (6 - w)>>>>
                  [] w = 3 -> <<<<today, today>>, <<today + 1, today + 3>>,
                                <<today + 4, today + 10>>>>
                  [] w = 4 -> <<<<today, today>>, <<today + 3, today + 9>>>>
                  [] OTHER -> <<<<today, today + 7>>>>

\* Thursday 2024-06-06: the windows 06-06..06-06, 06-07..06-09, 06-10..06-16.
C1_Witness ==
    /\ pc = "done"
    /\ ipo_data # <<>>
    /\ today = Ordinal(6, 6)
    /\ Weekday(today) = 3
    /\ SectionWindows = <<<<Ordinal(6, 6), Ordinal(6, 6)>>,
                          <<Ordinal(6, 7), Ordinal(6, 9)>>,
                          <<Ordinal(6, 10), Ordinal(6, 16)>>>>

\* C2: the collection get_ipo_data returns holds no two records of one
\* symbol, the placeholder 'N/A' included.
C2_UniqueSymbols ==
    \A i, j \in 1..Len(ipo_data) :
        i # j => ipo_data[i].symbol # ipo_data[j].symbol

\* Provider B sent two dated entries without a symbol: one 'N/A' record is kept.
C2_Witness ==
    /\ Combined
    /\ Len(fh_ipos) = 2
    /\ \A i \in 1..2 : fh_ipos[i].symbol = "N/A" /\ Parseable(fh_ipos[i])
    /\ Len(ipo_data) = 1
    /\ ipo_data[1].symbol = "N/A"

\* C3: for a symbol with a row of a parseable date, the record kept is the
\* earliest such row of Provider A's rows followed by Provider B's; when both
\* providers have the symbol with parseable dates, it has Provider A's name.
C3_FirstSeenWins ==
    Combined =>
        \A k \in 1..Len(Inputs) :
            Parseable(Inputs[k]) =>
                LET s == Inputs[k].symbol
                    first == CHOOSE j \in 1..Len(Inputs) :
                                /\ Inputs[j].symbol = s /\ Parseable(Inputs[j])
                                /\ \A i \in 1..(j - 1) :
                                     ~(Inputs[i].symbol = s /\ Parseable(Inputs[i]))
                    kept == SelectSeq(ipo_data, LAMBDA r : r.symbol = s)
                IN  /\ Len(kept) = 1
                    /\ kept[1].Company_Name = Inputs[first].Company_Name
                    /\ kept[1].IPO_Date = ToDatetime(Inputs[first].IPO_Date)
                    /\ \A a \in 1..Len(av_ipos), b \in 1..Len(fh_ipos) :
                         ( /\ av_ipos[a].symbol = s /\ Parseable(av_ipos[a])
                           /\ fh_ipos[b].symbol = s /\ Parseable(fh_ipos[b]) )
                         => \E c \in 1..Len(av_ipos) :
                                /\ av_ipos[c].symbol = s
                                /\ kept[1].Company_Name = av_ipos[c].Company_Name
                                /\ kept[1].Company_Name # fh_ipos[b].Company_Name

\* Both providers return ACME with a date, under two spellings of the name.
C3_Witness ==
    /\ Combined
    /\ Len(av_ipos) = 1 /\ Len(fh_ipos) = 1
    /\ av_ipos[1].symbol = "ACME" /\ fh_ipos[1].symbol = "ACME"
    /\ Parseable(av_ipos[1]) /\ Parseable(fh_ipos[1])
    /\ av_ipos[1].Company_Name # fh_ipos[1].Company_Name
    /\ Len(ipo_data) = 1
    /\ ipo_data[1].Company_Name = av_ipos[1].Company_Name

\* C4: every record of the collection get_ipo_data returns has a parsed date;
\* a row whose date does not parse is dropped and is in no section.
C4_DatesParsed ==
    /\ \A i \in 1..Len(ipo_data) :
        /\ ipo_data[i].IPO_Date # NaT
        /\ ipo_data[i].IPO_Date \in 1..366
    /\ Combined =>
        /\ Len(ipo_data) <= Cardinality({k \in 1..Len(Inputs) : Parseable(Inputs[k])})
        /\ \A i \in 1..Len(ipo_data) :
             \E k \in 1..Len(Inputs) :
                /\ Parseable(Inputs[k])
                /\ Inputs[k].symbol = ipo_data[i].symbol
                /\ ToDatetime(Inputs[k].IPO_Date) = ipo_data[i].IPO_Date
    /\ \A n \in 1..Len(sections) : \A k \in 1..Len(sections[n].listed) :
        sections[n].listed[k].IPO_Date \in 1..366

\* Of two rows, the first has a date that does not parse and is dropped.
C4_Witness ==
    /\ Combined
    /\ Len(Inputs) = 2
    /\ ~Parseable(Inputs[1])
    /\ Parseable(Inputs[2])
    /\ Len(ipo_data) = 1
    /\ ipo_data[1].symbol = Inputs[2].symbol

\* C5: a section lists a record if and only if start_date <= ipo_date <=
\* end_date: a record of end_date or start_date is listed, one a day past
\* end_date or a day before start_date is not.
C5_ListedIffInWindow ==
    \A n \in 1..Len(sections) :
        /\ \A i \in 1..Len(ipo_data) :
             Lists(sections[n], ipo_data[i]) <=>
                ( /\ sections[n].start_date <= ipo_data[i].IPO_Date
                  /\ ipo_data[i].IPO_Date <= sections[n].end_date )
        /\ \A k \in 1..Len(sections[n].listed) :
             \E i \in 1..Len(ipo_data) : ipo_data[i] = sections[n].listed[k]
        /\ \A k, l \in 1..Len(sections[n].listed) :
             k # l => sections[n].listed[k] # sections[n].listed[l]

\* A window of several days with a record on its last day, listed, and a
\* record on the day after, not listed.
C5_Witness ==
    \E n \in 1..Len(sections) : \E i, j \in 1..Len(ipo_data) :
        /\ sections[n].start_date < sections[n].end_date
        /\ ipo_data[i].IPO_Date = sections[n].end_date
        /\ Lists(sections[n], ipo_data[i])
        /\ ipo_data[j].IPO_Date = sections[n].end_date + 1
        /\ ~Lists(sections[n], ipo_data[j])

\* The place of a row in the merged collection.
Place(row) == CHOOSE i \in 1..Len(ipo_data) : ipo_data[i] = row

\* C6: in a section the dates ascend, and the records of one date are in the
\* order they have in the merged collection.
C6_OrderKept ==
    \A n \in 1..Len(sections) :
        \A k, l \in 1..Len(sections[n].listed) :
            k < l =>
                LET a == sections[n].listed[k]
                    b == sections[n].listed[l]
                IN  /\ a.IPO_Date <= b.IPO_Date
                    /\ a.IPO_Date = b.IPO_Date => Place(a) < Place(b)

\* C7, as stated: a report of more than 4096 characters is sent as its first
\* 4090 characters and a marker of 6; a shorter one is sent as it is.
C7_SixUnitMarker ==
    \A i \in 1..Len(sent) :
        IF Len(message) > 4096
        THEN /\ Len(sent[i].text) = 4090 + 6
             /\ SubSeq(sent[i].text, 1, 4090) = SubSeq(message, 1, 4090)
        ELSE sent[i].text = message

\* C7, amended: a report of more than 4096 characters is sent as its first
\* 4090 characters and the marker of 4 characters, a line break and three
\* dots, 4094 characters in all; one of 4096 characters or fewer is sent as
\* it is.
C7_FourUnitMarker ==
    \A i \in 1..Len(sent) :
        /\ Len(sent[i].text) <= 4096
        /\ IF Len(message) > 4096
           THEN /\ Len(sent[i].text) = 4090 + 4
                /\ SubSeq(sent[i].text, 1, 4090) = SubSeq(message, 1, 4090)
                /\ SubSeq(sent[i].text, 4091, 4094) = "\n..."
           ELSE sent[i].text = message

\* A report of 5000 characters has been sent, cut.
C7_Witness ==
    /\ Len(message) = LongReport
    /\ sent # <<>>
    /\ Len(sent[1].text) = 4094
    /\ sent[1].text # message

\* C8: once the configuration has loaded, whatever fetch or send fails, the
\* run makes one send per configured chat, in the order of the list, and
\* completes; a failed configuration sends nothing.
C8_OneSendPerChat ==
    /\ pc = "fatal" => sent = <<>>
    /\ Len(sent) <= Len(config.chat_ids)
    /\ \A i \in 1..Len(sent) : sent[i].chat_id = config.chat_ids[i]
    /\ pc = "done" => Len(sent) = Len(config.chat_ids)
    /\ pc = "send" => ENABLED (SendMessage \/ Finish)
    /\ pc = "format" => calls # <<>>
    /\ pc \in {"load_config", "fetch_av", "fetch_fh", "combine", "clock",
               "report", "format", "send", "done", "fatal"}

\* Three chats, the send to the second raised, and the other two were made.
C8_Witness ==
    /\ pc = "done"
    /\ Len(config.chat_ids) = 3
    /\ Len(sent) = 3
    /\ ~sent[1].raised /\ sent[2].raised /\ ~sent[3].raised
    /\ <<sent[1].chat_id, sent[2].chat_id, sent[3].chat_id>> = <<"111", "222", "333">>

\* C9: when both providers return nothing, or every row is dropped for its
\* date, the text sent to every chat is the 'No IPOs scheduled for today'
\* message, on any weekday, and the report has no section.
C9_NoIposMessage ==
    /\ ( /\ Combined
         /\ \A k \in 1..Len(Inputs) : ~Parseable(Inputs[k]) )
       => ipo_data = <<>>
    /\ (Reported /\ ipo_data = <<>>) =>
        /\ message = "No IPOs scheduled for today, " \o DayName(today) \o ", "
                        \o MonthAbbr(today) \o " " \o TwoDigits(DayOf(today)) \o "."
        /\ sections = <<>>
        /\ \A i \in 1..Len(sent) : sent[i].text = message

\* On a Thursday, with nothing in the collection, the message went to every
\* chat.
C9_Witness ==
    /\ pc = "done"
    /\ ipo_data = <<>>
    /\ Weekday(today) = 3
    /\ sent # <<>>
    /\ \A i \in 1..Len(sent) :
        sent[i].text = "No IPOs scheduled for today, Thursday, Jun 06."

\* C10: the windows of one report are disjoint and ascend, each starting
\* after the end of the one before, and no record is in two sections.
C10_WindowsDisjoint ==
    /\ \A m, n \in 1..Len(sections) :
        m < n => sections[m].end_date < sections[n].start_date
    /\ \A m, n \in 1..Len(sections) : \A i \in 1..Len(ipo_data) :
        (Lists(sections[m], ipo_data[i]) /\ Lists(sections[n], ipo_data[i])) => m = n

\* A Thursday report of three windows, with records in two of them.
C10_Witness ==
    /\ pc = "done"
    /\ Len(sections) = 3
    /\ \E m, n \in 1..3 : m # n /\ sections[m].listed # <<>> /\ sections[n].listed # <<>>

====
